---- MODULE Spec2Model ----
(***************************************************************************)
(* Verification model of the UAV_MBSE structural mass engine               *)
(* (src/structures/structural_model.py) and of the XML value parser        *)
(* (src/utils/xml_parser.py).                                              *)
(*                                                                         *)
(* Lengths are exact rationals.  Station positions and max_spacing are     *)
(* integers counted in half units (2 = 1.0, 5 = 2.5).  Rib positions are   *)
(* kept multiplied by Scale, a common multiple of every possible number of *)
(* sub-intervals, so that every linspace sample is an integer.             *)
(***************************************************************************)
EXTENDS Integers, Sequences, FiniteSets, TLC

VARIABLES
    wingspans,      \* calculate_ribs: surface.wingspans
    max_spacing,    \* calculate_ribs: max_spacing
    rib_result,     \* calculate_ribs: outcome of the call
    surface,        \* SurfaceStructure.surface
    config,         \* SurfaceStructure.config
    spars,          \* SurfaceStructure.spars
    ribs,           \* SurfaceStructure.ribs
    coatings,       \* SurfaceStructure.coatings
    init_status,    \* outcome of initialize_structure on the structure
    adds,           \* number of direct add_spar / add_rib / add_coating calls made
    mass_result,    \* outcome of the last read of SurfaceStructure.mass
    aircraft,       \* StructuralModel.__init__: aircraft.surfaces
    configuration,  \* StructuralModel.__init__: configuration
    model_result,   \* outcome of StructuralModel(aircraft, configuration)
    coating,        \* SurfaceCoating instances: surface, cache, computations
    last_read,      \* outcome of the last property read of a SurfaceCoating
    text,           \* parse_type: text
    parse_result,   \* outcome of parse_type(text)
    element,        \* parse_xml_to_dict: element
    dict_result     \* outcome of parse_xml_to_dict(element)

vars == <<wingspans, max_spacing, rib_result, surface, config, spars, ribs,
          coatings, init_status, adds, mass_result,
          aircraft, configuration, model_result,
          coating, last_read, text, parse_result, element, dict_result>>

ribVars == <<wingspans, max_spacing, rib_result>>
structVars == <<surface, config, spars, ribs, coatings, init_status, adds, mass_result>>
modelVars == <<aircraft, configuration, model_result>>
coatingVars == <<coating, last_read>>
parseVars == <<text, parse_result>>
xmlVars == <<element, dict_result>>

----------------------------------------------------------------------------
(* Bounds *)

\* Largest station coordinate, in half units.
MaxStation == 5
\* Largest number of stations of one surface.
MaxSections == 3
\* Largest max_spacing, in half units.
MaxSpacing == 3
\* Largest cross-section area of an element handed to add_spar, add_rib or
\* add_coating.
MaxArea == 2
\* Largest number of direct add_spar / add_rib / add_coating calls.
MaxAdds == 2
\* Largest number of surfaces of an aircraft.
MaxSurfaces == 2
\* Number of SurfaceCoating instances.
MaxCoatings == 2
\* Largest number of property reads of one SurfaceCoating instance.
MaxReads == 3
\* Largest length of a generated text.
MaxLen == 5
\* Largest number of children of an XML element.
MaxChildren == 3

----------------------------------------------------------------------------
(* Generic helpers *)

RECURSIVE Gcd(_, _)
Gcd(a, b) == IF b = 0 THEN a ELSE Gcd(b, a % b)

RECURSIVE LcmUpTo(_)
LcmUpTo(n) == IF n <= 1 THEN 1 ELSE (LcmUpTo(n - 1) * n) \div Gcd(LcmUpTo(n - 1), n)

\* Every number of sub-intervals is at most MaxStation, so it divides Scale.
Scale == LcmUpTo(MaxStation)

Min(S) == CHOOSE x \in S : \A y \in S : x <= y

RECURSIVE SortedSeq(_)
SortedSeq(S) == IF S = {} THEN <<>> ELSE <<Min(S)>> \o SortedSeq(S \ {Min(S)})

RECURSIVE Concat(_)
Concat(ss) == IF ss = <<>> THEN <<>> ELSE Head(ss) \o Concat(Tail(ss))

Range(s) == {s[i] : i \in DOMAIN s}

RECURSIVE SumSeq(_)
SumSeq(s) == IF s = <<>> THEN 0 ELSE Head(s) + SumSeq(Tail(s))

StrictlyIncreasing(s) == \A i \in 1..(Len(s) - 1) : s[i] < s[i + 1]

\* The station lists a geometric surface can carry.
StationLists ==
    UNION {{s \in [1..n -> 0..MaxStation] : StrictlyIncreasing(s)} : n \in 1..MaxSections}

----------------------------------------------------------------------------
(* SurfaceStructure.calculate_ribs *)

\* Mutant of Ceil: rounds the quotient down.
CeilFloor(d, m) == d \div m

\* np.ceil(d / m) for m > 0
Ceil(d, m) == -((-d) \div m)

\* n_ribs = np.ceil((wingspans[1:] - wingspans[:-1]) / max_spacing)
n_ribs(ws, m) == [i \in 1..(Len(ws) - 1) |-> Ceil(ws[i + 1] - ws[i], m)]

\* Mutant of Linspace: the samples of np.arange, which leaves stop out.
LinspaceArange(start, stop, num) ==
    [k \in 1..(num - 1) |-> start * Scale + (k - 1) * (((stop - start) * Scale) \div (num - 1))]

\* np.linspace(start, stop, num), scaled by Scale: num samples, the first at
\* start, evenly spaced, the last one set to stop.
Linspace(start, stop, num) ==
    IF num <= 0 THEN <<>>
    ELSE IF num = 1 THEN <<start * Scale>>
    ELSE [k \in 1..num |->
            IF k = num THEN stop * Scale
            ELSE start * Scale + (k - 1) * (((stop - start) * Scale) \div (num - 1))]

\* section_ribs = [np.linspace(wingspans[i], wingspans[i+1], int(n+1)) ...]
section_ribs(ws, m) ==
    [i \in 1..(Len(ws) - 1) |-> Linspace(ws[i], ws[i + 1], n_ribs(ws, m)[i] + 1)]

\* Mutant of Unique: keeps the duplicates.
UniqueKeepAll(a) == a

\* np.unique(a): the distinct values of a, ascending
Unique(a) == SortedSeq(Range(a))

\* np.concatenate raises ValueError on an empty list of arrays
ConcatenateFails(arrays) == arrays = <<>>

\* rib_positions = np.unique(np.concatenate(section_ribs))
rib_positions(ws, m) == Unique(Concat(section_ribs(ws, m)))

\* vector_interpolation(rib_positions, wingspans, section_curves): one
\* interpolated curve per requested position
vector_interpolation(positions, ws) == [i \in DOMAIN positions |-> [span |-> positions[i]]]

\* The whole of calculate_ribs: the ribs it returns, named by index, or the
\* error it raises.
calculate_ribs(ws, m) ==
    IF ConcatenateFails(section_ribs(ws, m))
    THEN [status |-> "error", ribs |-> <<>>]
    ELSE LET geometry == vector_interpolation(rib_positions(ws, m), ws)
         IN  [status |-> "ok",
              ribs |-> [i \in DOMAIN geometry |->
                          [name |-> i - 1, position |-> geometry[i].span]]]

NoCall == [status |-> "none", ribs |-> <<>>]

RibIdle == wingspans = <<0>> /\ max_spacing = 1 /\ rib_result = NoCall

InitRibs ==
    /\ wingspans \in StationLists
    /\ max_spacing \in 1..MaxSpacing
    /\ rib_result = NoCall

CalculateRibs ==
    /\ rib_result.status = "none"
    /\ rib_result' = calculate_ribs(wingspans, max_spacing)
    /\ UNCHANGED <<wingspans, max_spacing>>

----------------------------------------------------------------------------
(* Structural elements and PointMass *)

\* PointMass(mass, coordinates, tag)
PointMass(m, c, t) == [mass |-> m, coordinates |-> c, tag |-> t]

\* StructuralRib.mass / SurfaceCoating.mass: area * thickness * density at the
\* centroid, tagged with the element kind.  A spar exposes a mass the same way.
ElementMass(e) == PointMass(e.area * e.thickness * e.density, e.centroid, e.kind)

Element(kind, area, centroid) ==
    [kind |-> kind, area |-> area, thickness |-> 1, density |-> 1, centroid |-> centroid]

\* The elements a caller can hand to add_spar / add_rib / add_coating.
Elements(kind) == {Element(kind, a, a - 1) : a \in 1..MaxArea}

\* StructuralSpar.create_main_spar(surface, **config) and
\* StructuralSpar.create_spar(surface, **config): one spar each
create_main_spar(surf) == Element("Spar", 2, 0)
create_spar(surf) == Element("Spar", 1, 1)

\* StructuralRib(curve, thickness, material) for one interpolated curve
StructuralRib(r, surf) == Element("Rib", surf.curve_area, r.position)

\* SurfaceCoating(surface, **config)
SurfaceCoating(surf) == Element("SurfaceCoating", surf.mesh_area, 0)

----------------------------------------------------------------------------
(* SurfaceStructure *)

KeyStates == {"absent", "empty", "given"}

\* A per-surface configuration: each optional key is absent, present with an
\* empty dictionary, or present with keyword parameters.
Configs ==
    [main_spar : KeyStates, secondary_spar : KeyStates, ribs : KeyStates,
     surface_coating : KeyStates, max_spacing : {2}]

\* `if cfg:` on config.get(key): None and {} are both falsy
Truthy(state) == state = "given"

Surface(type, name, ws) ==
    [surface_type |-> type, name |-> name, wingspans |-> ws, curve_area |-> 1,
     mesh_area |-> 3]

\* SurfaceStructure.__init__
NewStructure(surf, cfg) ==
    [surface |-> surf, config |-> cfg, spars |-> <<>>, ribs |-> <<>>, coatings |-> <<>>]

\* add_spar / add_rib / add_coating
add_spar(st, spar) == [st EXCEPT !.spars = Append(@, spar)]
add_rib(st, rib) == [st EXCEPT !.ribs = Append(@, rib)]
add_coating(st, c) == [st EXCEPT !.coatings = Append(@, c)]

RECURSIVE add_ribs(_, _)
add_ribs(st, rs) == IF rs = <<>> THEN st ELSE add_ribs(add_rib(st, Head(rs)), Tail(rs))

\* initialize_structure: the structure it leaves behind and whether it raised.
initialize_structure(st) ==
    LET cfg == st.config
        s1 == IF Truthy(cfg.main_spar) THEN add_spar(st, create_main_spar(st.surface)) ELSE st
        s2 == IF Truthy(cfg.secondary_spar) THEN add_spar(s1, create_spar(st.surface)) ELSE s1
        calc == calculate_ribs(st.surface.wingspans, cfg.max_spacing)
        s3 == IF Truthy(cfg.ribs)
              THEN add_ribs(s2, [i \in DOMAIN calc.ribs |-> StructuralRib(calc.ribs[i], st.surface)])
              ELSE s2
        s4 == IF Truthy(cfg.surface_coating) THEN add_coating(s3, SurfaceCoating(st.surface)) ELSE s3
    IN  IF Truthy(cfg.ribs) /\ calc.status = "error"
        THEN [status |-> "error", struct |-> s2]
        ELSE [status |-> "ok", struct |-> s4]

\* Mutant of collect_masses: chains spars and ribs only.
collect_massesNoCoatings(st) ==
    LET items == st.spars \o st.ribs
    IN  [i \in DOMAIN items |-> ElementMass(items[i])]

\* collect_masses: chain(spars, ribs, coatings), each item's mass
collect_masses(st) ==
    LET items == st.spars \o st.ribs \o st.coatings
    IN  [i \in DOMAIN items |-> ElementMass(items[i])]

\* weighted_coordinates / total_mass: numpy division, NaN for 0.0 / 0
Divide(num, den) ==
    IF den = 0 THEN [nan |-> TRUE, num |-> 0, den |-> 0]
    ELSE [nan |-> FALSE, num |-> num, den |-> den]

\* SurfaceStructure.mass
Mass(st) ==
    LET pms == collect_masses(st)
        weighted_coordinates == SumSeq([i \in DOMAIN pms |-> pms[i].mass * pms[i].coordinates])
        total_mass == SumSeq([i \in DOMAIN pms |-> pms[i].mass])
    IN  [status |-> "ok",
         point |-> PointMass(total_mass, Divide(weighted_coordinates, total_mass), st.surface.name)]

NoRead == [status |-> "none", point |-> PointMass(0, Divide(0, 1), "")]

\* The surfaces of the structure specification: stations among 0, 1.0 and the
\* largest station, starting at 0.
StructStationLists ==
    {ws \in StationLists : ws[1] = 0 /\ Range(ws) \subseteq {0, 2, MaxStation}}

Struct ==
    [surface |-> surface, config |-> config, spars |-> spars, ribs |-> ribs,
     coatings |-> coatings]

SetStruct(st) ==
    /\ spars' = st.spars
    /\ ribs' = st.ribs
    /\ coatings' = st.coatings
    /\ UNCHANGED <<surface, config>>

InitStruct ==
    /\ surface \in {Surface("WING", "Wing", ws) : ws \in StructStationLists}
    /\ config \in Configs
    /\ spars = <<>>
    /\ ribs = <<>>
    /\ coatings = <<>>
    /\ init_status = "none"
    /\ adds = 0
    /\ mass_result = NoRead

StructIdle ==
    /\ surface = Surface("WING", "Wing", <<0>>)
    /\ config = [main_spar |-> "absent", secondary_spar |-> "absent", ribs |-> "absent",
                 surface_coating |-> "absent", max_spacing |-> 2]
    /\ spars = <<>>
    /\ ribs = <<>>
    /\ coatings = <<>>
    /\ init_status = "none"
    /\ adds = 0
    /\ mass_result = NoRead

\* struct.initialize_structure()
InitializeStructure ==
    /\ mass_result.status = "none"
    /\ init_status = "none"
    /\ LET r == initialize_structure(Struct)
       IN  /\ SetStruct(r.struct)
           /\ init_status' = r.status
    /\ UNCHANGED <<adds, mass_result>>

\* struct.add_spar(spar)
AddSpar ==
    /\ mass_result.status = "none"
    /\ adds < MaxAdds
    /\ \E e \in Elements("Spar") : SetStruct(add_spar(Struct, e))
    /\ adds' = adds + 1
    /\ UNCHANGED <<init_status, mass_result>>

\* struct.add_rib(rib)
AddRib ==
    /\ mass_result.status = "none"
    /\ adds < MaxAdds
    /\ \E e \in Elements("Rib") : SetStruct(add_rib(Struct, e))
    /\ adds' = adds + 1
    /\ UNCHANGED <<init_status, mass_result>>

\* struct.add_coating(coating)
AddCoating ==
    /\ mass_result.status = "none"
    /\ adds < MaxAdds
    /\ \E e \in Elements("SurfaceCoating") : SetStruct(add_coating(Struct, e))
    /\ adds' = adds + 1
    /\ UNCHANGED <<init_status, mass_result>>

\* struct.mass
ReadMass ==
    /\ mass_result.status = "none"
    /\ mass_result' = Mass(Struct)
    /\ UNCHANGED <<surface, config, spars, ribs, coatings, init_status, adds>>

----------------------------------------------------------------------------
(* StructuralModel *)

SurfaceTypes == {"WING", "TAIL"}

\* The surfaces of the model specification: either type, one or two stations.
ModelSurfaces ==
    {Surface(t, t, ws) : t \in SurfaceTypes, ws \in {<<0>>, <<0, MaxStation>>}}

Aircrafts == UNION {[1..n -> ModelSurfaces] : n \in 1..MaxSurfaces}

ModelConfigs ==
    {c \in Configs : /\ c.main_spar = c.surface_coating
                     /\ c.secondary_spar = "absent"
                     /\ c.main_spar # "empty"
                     /\ c.ribs # "empty"}

\* A configuration dictionary: surface types that have an entry, each with
\* its per-surface configuration.
Configurations == UNION {[D -> ModelConfigs] : D \in SUBSET SurfaceTypes}

\* The loop of StructuralModel.__init__ from surface i on, with
\* self.structures = built so far: configuration[surface_type] raises KeyError
\* for a missing type, an error of initialize_structure propagates.
RECURSIVE BuildStructures(_, _, _, _)
BuildStructures(surfaces, cfgs, i, built) ==
    IF i > Len(surfaces)
    THEN [status |-> "ok", error_at |-> 0, cause |-> "", structures |-> built]
    ELSE IF surfaces[i].surface_type \notin DOMAIN cfgs
    THEN [status |-> "error", error_at |-> i, cause |-> "KeyError", structures |-> built]
    ELSE LET r == initialize_structure(NewStructure(surfaces[i], cfgs[surfaces[i].surface_type]))
         IN  IF r.status = "error"
             THEN [status |-> "error", error_at |-> i, cause |-> "ValueError",
                   structures |-> built]
             ELSE BuildStructures(surfaces, cfgs, i + 1, Append(built, r.struct))

\* StructuralModel(aircraft, configuration): the model returned, or the error
\* raised, in which case the caller receives no object.
StructuralModel(surfaces, cfgs) ==
    LET r == BuildStructures(surfaces, cfgs, 1, <<>>)
    IN  IF r.status = "ok"
        THEN [status |-> "ok", error_at |-> 0, cause |-> "", returned |-> TRUE,
              structures |-> r.structures]
        ELSE [status |-> "error", error_at |-> r.error_at, cause |-> r.cause,
              returned |-> FALSE, structures |-> <<>>]

NoModel ==
    [status |-> "none", error_at |-> 0, cause |-> "", returned |-> FALSE, structures |-> <<>>]

InitModel ==
    /\ aircraft \in Aircrafts
    /\ configuration \in Configurations
    /\ model_result = NoModel

ModelIdle ==
    /\ aircraft = <<>>
    /\ configuration = <<>>
    /\ model_result = NoModel

\* model = StructuralModel(aircraft, configuration)
Construct ==
    /\ model_result.status = "none"
    /\ model_result' = StructuralModel(aircraft, configuration)
    /\ UNCHANGED <<aircraft, configuration>>

----------------------------------------------------------------------------
(* SurfaceCoating: the cached (centroid, area) pair *)

\* A triangulated surface: one triangle (0,0,0), (w,0,0), (0,h,0).
Meshes == {[w |-> 1, h |-> 2], [w |-> 2, h |-> 3]}

\* surface_centroid_area(xx, yy, zz): the centroid (times 3) and the area
\* (times 2) of the triangulation
surface_centroid_area(mesh) == [centroid |-> <<mesh.w, mesh.h>>, area |-> mesh.w * mesh.h]

NoPair == [centroid |-> <<0, 0>>, area |-> 0]

\* SurfaceCoating.__init__
NewCoating(mesh) == [surface |-> mesh, cached |-> FALSE, pair |-> NoPair, calls |-> 0, reads |-> 0]

\* Mutant of CentroidArea: a plain property, computed on every access.
CentroidAreaUncached(c) ==
    [c EXCEPT !.cached = TRUE, !.pair = surface_centroid_area(c.surface), !.calls = @ + 1]

\* One access of the cached_property _centroid_area: the first one runs the
\* computation and stores its result in the instance, later ones return it.
CentroidArea(c) ==
    IF c.cached THEN c
    ELSE [c EXCEPT !.cached = TRUE, !.pair = surface_centroid_area(c.surface), !.calls = @ + 1]

Instances == 1..MaxCoatings

NoValue == [instance |-> 0, prop |-> "none", centroid |-> <<0, 0>>, area |-> 0, mass |-> 0]

InitCoating ==
    /\ coating \in [Instances -> {NewCoating(m) : m \in Meshes}]
    /\ last_read = NoValue

CoatingIdle ==
    /\ coating = <<>>
    /\ last_read = NoValue

\* coating.centroid
ReadCentroid ==
    \E i \in Instances :
        /\ coating[i].reads < MaxReads
        /\ LET c == CentroidArea(coating[i])
           IN  /\ coating' = [coating EXCEPT ![i] = [c EXCEPT !.reads = @ + 1]]
               /\ last_read' = [NoValue EXCEPT !.instance = i, !.prop = "centroid",
                                                !.centroid = c.pair.centroid]

\* coating.area
ReadArea ==
    \E i \in Instances :
        /\ coating[i].reads < MaxReads
        /\ LET c == CentroidArea(coating[i])
           IN  /\ coating' = [coating EXCEPT ![i] = [c EXCEPT !.reads = @ + 1]]
               /\ last_read' = [NoValue EXCEPT !.instance = i, !.prop = "area",
                                                !.area = c.pair.area]

\* coating.mass: reads self.area, then self.centroid (thickness and density 1)
ReadCoatingMass ==
    \E i \in Instances :
        /\ coating[i].reads < MaxReads
        /\ LET c1 == CentroidArea(coating[i])
               c2 == CentroidArea(c1)
           IN  /\ coating' = [coating EXCEPT ![i] = [c2 EXCEPT !.reads = @ + 1]]
               /\ last_read' = [NoValue EXCEPT !.instance = i, !.prop = "mass",
                                                !.mass = c1.pair.area,
                                                !.centroid = c2.pair.centroid]

----------------------------------------------------------------------------
(* Strings: sequences of one-character strings *)

Digits == {"0", "1", "2", "3", "4", "5", "6", "7", "8", "9"}

DigitValue(c) ==
    CASE c = "0" -> 0 [] c = "1" -> 1 [] c = "2" -> 2 [] c = "3" -> 3 [] c = "4" -> 4
      [] c = "5" -> 5 [] c = "6" -> 6 [] c = "7" -> 7 [] c = "8" -> 8 [] c = "9" -> 9

UpperLetters ==
    <<"A", "B", "C", "D", "E", "F", "G", "H", "I", "J", "K", "L", "M",
      "N", "O", "P", "Q", "R", "S", "T", "U", "V", "W", "X", "Y", "Z">>
LowerLetters ==
    <<"a", "b", "c", "d", "e", "f", "g", "h", "i", "j", "k", "l", "m",
      "n", "o", "p", "q", "r", "s", "t", "u", "v", "w", "x", "y", "z">>

LowerChar(c) ==
    IF \E i \in DOMAIN UpperLetters : UpperLetters[i] = c
    THEN LowerLetters[CHOOSE i \in DOMAIN UpperLetters : UpperLetters[i] = c]
    ELSE c

\* str.lower()
Lower(t) == [i \in DOMAIN t |-> LowerChar(t[i])]

\* str.replace(ch, "")
Remove(t, ch) == SelectSeq(t, LAMBDA c : c # ch)

\* str.isnumeric(): non-empty and every character numeric
IsNumeric(t) == t # <<>> /\ \A i \in DOMAIN t : t[i] \in Digits

\* str.split(sep)
RECURSIVE Split(_, _)
Split(t, sep) ==
    IF \A i \in DOMAIN t : t[i] # sep THEN <<t>>
    ELSE LET k == CHOOSE i \in DOMAIN t : t[i] = sep /\ \A j \in 1..(i - 1) : t[j] # sep
         IN  <<SubSeq(t, 1, k - 1)>> \o Split(SubSeq(t, k + 1, Len(t)), sep)

\* str.strip() as float() applies it
RECURSIVE Strip(_)
Strip(t) ==
    IF t = <<>> THEN t
    ELSE IF Head(t) = " " THEN Strip(Tail(t))
    ELSE IF t[Len(t)] = " " THEN Strip(SubSeq(t, 1, Len(t) - 1))
    ELSE t

Count(t, ch) == Len(SelectSeq(t, LAMBDA c : c = ch))

----------------------------------------------------------------------------
(* float(text) *)

Unsigned(t) == IF t # <<>> /\ Head(t) \in {"+", "-"} THEN Tail(t) ELSE t

HasExponent(t) == \E i \in DOMAIN t : t[i] \in {"e", "E"}
ExponentAt(t) == CHOOSE i \in DOMAIN t : t[i] \in {"e", "E"} /\ \A j \in 1..(i - 1) : t[j] \notin {"e", "E"}
MantissaOf(t) == IF HasExponent(t) THEN SubSeq(t, 1, ExponentAt(t) - 1) ELSE t
ExponentOf(t) == SubSeq(t, ExponentAt(t) + 1, Len(t))

\* digits with at most one point and at least one digit
MantissaOk(t) ==
    /\ \A i \in DOMAIN t : t[i] \in Digits \/ t[i] = "."
    /\ Count(t, ".") <= 1
    /\ \E i \in DOMAIN t : t[i] \in Digits

\* Whether float(text) returns: surrounding blanks, one optional sign, then
\* inf / infinity / nan or a decimal literal with an optional exponent.
FloatOk(t) ==
    LET u == Unsigned(Strip(t))
    IN  \/ Lower(u) \in {<<"i", "n", "f">>, <<"n", "a", "n">>,
                          <<"i", "n", "f", "i", "n", "i", "t", "y">>}
        \/ /\ MantissaOk(MantissaOf(u))
           /\ HasExponent(u) => IsNumeric(Unsigned(ExponentOf(u)))

RECURSIVE DigitsValue(_)
DigitsValue(t) == IF t = <<>> THEN 0 ELSE DigitsValue(SubSeq(t, 1, Len(t) - 1)) * 10 + DigitValue(t[Len(t)])

RECURSIVE Normal(_, _)
Normal(n, k) == IF n = 0 THEN <<0, 0>> ELSE IF k > 0 /\ n % 10 = 0 THEN Normal(n \div 10, k - 1) ELSE <<n, k>>

\* The value of float(text) for a plain decimal literal: num / 10^scale, in
\* lowest terms of ten, so that "1", "1.0" and " 1." are the same float.
FloatValue(t) ==
    LET s == Strip(t)
        u == Unsigned(s)
        frac == IF Count(u, ".") = 0 THEN 0
                ELSE Len(u) - (CHOOSE i \in DOMAIN u : u[i] = ".")
        nk == Normal(DigitsValue(Remove(u, ".")), frac)
        neg == s # <<>> /\ Head(s) = "-"
    IN  [num |-> IF neg THEN -nk[1] ELSE nk[1], scale |-> nk[2]]

----------------------------------------------------------------------------
(* xml_parser: is_float, parse_type, parse_xml_to_dict *)

\* element.text of an element without text
None == <<"None">>

\* text.replace(" ", "").replace(".", "").replace("-", "").isnumeric()
is_float(t) == IsNumeric(Remove(Remove(Remove(t, " "), "."), "-"))

BoolValue(b) == [kind |-> "bool", b |-> b]
FloatVal(t) == [kind |-> "float", f |-> FloatValue(t)]
StrValue(t) == [kind |-> "str", s |-> t]
NoneValue == [kind |-> "none"]
ListValue(items) == [kind |-> "list", items |-> items]
DictValue(entries) == [kind |-> "dict", entries |-> entries]

Returned(v) == [status |-> "ok", value |-> v]
Raised == [status |-> "error", value |-> NoneValue]
NotCalled == [status |-> "none", value |-> NoneValue]

\* parse_type(text): the value returned, or the ValueError of float()
parse_type(t) ==
    IF t = None THEN Returned(NoneValue)
    ELSE IF Lower(t) = <<"t", "r", "u", "e">> THEN Returned(BoolValue(TRUE))
    ELSE IF Lower(t) = <<"f", "a", "l", "s", "e">> THEN Returned(BoolValue(FALSE))
    ELSE IF is_float(t)
    THEN IF FloatOk(t) THEN Returned(FloatVal(t)) ELSE Raised
    ELSE IF Count(t, ",") > 0 /\ \A i \in DOMAIN Split(t, ",") : is_float(Split(t, ",")[i])
    THEN LET vector == Split(t, ",")
         IN  IF \A i \in DOMAIN vector : FloatOk(vector[i])
             THEN Returned(ListValue([i \in DOMAIN vector |-> FloatVal(vector[i])]))
             ELSE Raised
    ELSE Returned(StrValue(t))

\* An XML element: tag, text and child elements.
Elem(tag, txt, children) == [tag |-> tag, text |-> txt, children |-> children]

\* return_dict, a dictionary in insertion order: entries of tag and value
HasTag(d, tag) == \E i \in DOMAIN d : d[i].tag = tag
Lookup(d, tag) == d[CHOOSE i \in DOMAIN d : d[i].tag = tag].value
Store(d, tag, v) ==
    IF HasTag(d, tag)
    THEN [i \in DOMAIN d |-> IF d[i].tag = tag THEN [tag |-> tag, value |-> v] ELSE d[i]]
    ELSE Append(d, [tag |-> tag, value |-> v])

\* The body of the loop over the children: store the first value of a tag,
\* turn a value that is not a list into a one-item list on the second, append.
AddChild(d, tag, child_dict) ==
    IF ~HasTag(d, tag) THEN Store(d, tag, child_dict)
    ELSE LET cur == Lookup(d, tag)
             lst == IF cur.kind # "list" THEN ListValue(<<cur>>) ELSE cur
         IN  Store(d, tag, ListValue(Append(lst.items, child_dict)))

RECURSIVE parse_xml_to_dict(_)
RECURSIVE ParseChildren(_, _, _)

\* for child in element: ... from child i on; an error of a child propagates
ParseChildren(children, i, d) ==
    IF i > Len(children) THEN Returned(DictValue(d))
    ELSE LET r == parse_xml_to_dict(children[i])
         IN  IF r.status = "error" THEN Raised
             ELSE ParseChildren(children, i + 1, AddChild(d, children[i].tag, r.value))

\* parse_xml_to_dict(element)
parse_xml_to_dict(el) ==
    IF el.children = <<>> THEN parse_type(el.text)
    ELSE ParseChildren(el.children, 1, <<>>)

----------------------------------------------------------------------------
(* Inputs of the parser specifications *)

Alphabet == {"1", ".", "-", " ", ","}

\* Texts outside the generated ones that reach the remaining branches.
SampleTexts ==
    {None,
     <<"t", "r", "u", "e">>, <<"T", "r", "u", "e">>, <<"F", "A", "L", "S", "E">>,
     <<"a", "b", "c">>, <<"1", "e", "5">>, <<"i", "n", "f">>, <<"0", ".", "5", "0">>,
     <<"2", "0", "2", "4", "-", "0", "1", "-", "1", "5">>}

Texts == UNION {[1..n -> Alphabet] : n \in 0..MaxLen} \cup SampleTexts

Tags == {"a", "b"}

LeafTexts == {None, <<"1">>, <<"1", ",", "2">>, <<"x">>}

Leaves == {Elem(t, x, <<>>) : t \in Tags, x \in LeafTexts}

\* Elements with children of their own: a repeated tag and a single one.
Inner ==
    {Elem(t, None, cs) : t \in Tags,
        cs \in {<<Elem("a", <<"1">>, <<>>), Elem("a", <<"x">>, <<>>)>>,
                <<Elem("b", <<"1">>, <<>>)>>}}

Roots == {Elem("root", None, cs) : cs \in UNION {[1..n -> Leaves \cup Inner] : n \in 1..MaxChildren}}

InitParse ==
    /\ text \in Texts
    /\ parse_result = NotCalled

ParseIdle ==
    /\ text = None
    /\ parse_result = NotCalled

\* parse_type(text)
ParseType ==
    /\ parse_result.status = "none"
    /\ parse_result' = parse_type(text)
    /\ UNCHANGED text

InitXml ==
    /\ element \in Roots
    /\ dict_result = NotCalled

XmlIdle ==
    /\ element = Elem("root", None, <<>>)
    /\ dict_result = NotCalled

\* parse_xml_to_dict(element)
ParseXml ==
    /\ dict_result.status = "none"
    /\ dict_result' = parse_xml_to_dict(element)
    /\ UNCHANGED element

----------------------------------------------------------------------------
(* Specifications: one per component, the other components at rest *)

RestRibs == UNCHANGED <<structVars, modelVars, coatingVars, parseVars, xmlVars>>

StartRibs ==
    /\ InitRibs
    /\ StructIdle
    /\ ModelIdle
    /\ CoatingIdle
    /\ ParseIdle
    /\ XmlIdle

CalculateRibsStep == CalculateRibs /\ RestRibs

NextRibs == CalculateRibsStep

SpecRibs == StartRibs /\ [][NextRibs]_vars

RestStruct == UNCHANGED <<ribVars, modelVars, coatingVars, parseVars, xmlVars>>

StartStruct ==
    /\ RibIdle
    /\ InitStruct
    /\ ModelIdle
    /\ CoatingIdle
    /\ ParseIdle
    /\ XmlIdle

InitializeStructureStep == InitializeStructure /\ RestStruct
AddSparStep == AddSpar /\ RestStruct
AddRibStep == AddRib /\ RestStruct
AddCoatingStep == AddCoating /\ RestStruct
ReadMassStep == ReadMass /\ RestStruct

NextStruct == InitializeStructureStep \/ AddSparStep \/ AddRibStep \/ AddCoatingStep \/ ReadMassStep

SpecStruct == StartStruct /\ [][NextStruct]_vars

RestModel == UNCHANGED <<ribVars, structVars, coatingVars, parseVars, xmlVars>>

StartModel ==
    /\ RibIdle
    /\ StructIdle
    /\ InitModel
    /\ CoatingIdle
    /\ ParseIdle
    /\ XmlIdle

ConstructStep == Construct /\ RestModel

NextModel == ConstructStep

SpecModel == StartModel /\ [][NextModel]_vars

RestCoating == UNCHANGED <<ribVars, structVars, modelVars, parseVars, xmlVars>>

StartCoating ==
    /\ RibIdle
    /\ StructIdle
    /\ ModelIdle
    /\ InitCoating
    /\ ParseIdle
    /\ XmlIdle

ReadCentroidStep == ReadCentroid /\ RestCoating
ReadAreaStep == ReadArea /\ RestCoating
ReadCoatingMassStep == ReadCoatingMass /\ RestCoating

NextCoating == ReadCentroidStep \/ ReadAreaStep \/ ReadCoatingMassStep

SpecCoating == StartCoating /\ [][NextCoating]_vars

RestParse == UNCHANGED <<ribVars, structVars, modelVars, coatingVars, xmlVars>>

StartParse ==
    /\ RibIdle
    /\ StructIdle
    /\ ModelIdle
    /\ CoatingIdle
    /\ InitParse
    /\ XmlIdle

ParseTypeStep == ParseType /\ RestParse

NextParse == ParseTypeStep

SpecParse == StartParse /\ [][NextParse]_vars

RestXml == UNCHANGED <<ribVars, structVars, modelVars, coatingVars, parseVars>>

StartXml ==
    /\ RibIdle
    /\ StructIdle
    /\ ModelIdle
    /\ CoatingIdle
    /\ ParseIdle
    /\ InitXml

ParseXmlStep == ParseXml /\ RestXml

NextXml == ParseXmlStep

SpecXml == StartXml /\ [][NextXml]_vars

----------------------------------------------------------------------------
(* Claims about calculate_ribs, under SpecRibs *)

Called == rib_result.status # "none"

Positions == [i \in DOMAIN rib_result.ribs |-> rib_result.ribs[i].position]

\* Stations 0, 1.0, 2.5 with max_spacing 1.0, in half units.
ExampleCase == wingspans = <<0, 2, 5>> /\ max_spacing = 2

\* C3, as stated: for stations [0, 1, 2.5] and max_spacing = 1.0,
\* calculate_ribs produces exactly 5 ribs, at 0, 0.5, 1, 1.75 and 2.5.
C3_FiveRibs ==
    (ExampleCase /\ Called) =>
        /\ rib_result.status = "ok"
        /\ Len(rib_result.ribs) = 5
        /\ Range(Positions) = {0, Scale, 2 * Scale, (7 * Scale) \div 2, 5 * Scale}

\* C3, amended: for stations [0, 1, 2.5] and max_spacing = 1.0,
\* calculate_ribs produces exactly 4 ribs, at 0, 1, 1.75 and 2.5, in this
\* order and named 0 to 3.
C3_FourRibs ==
    (ExampleCase /\ Called) =>
        /\ rib_result.status = "ok"
        /\ Positions = <<0, 2 * Scale, (7 * Scale) \div 2, 5 * Scale>>
        /\ \A i \in DOMAIN rib_result.ribs : rib_result.ribs[i].name = i - 1

C3_Witness == ExampleCase /\ rib_result.status = "ok"

\* C4: for every strictly increasing station list with at least two stations
\* and every max_spacing > 0, every station position is, exactly, one of the
\* rib positions calculate_ribs computes.
C4_EndpointsPreserved ==
    (Called /\ Len(wingspans) >= 2) =>
        /\ rib_result.status = "ok"
        /\ \A i \in DOMAIN wingspans :
              \E j \in DOMAIN Positions : Positions[j] = wingspans[i] * Scale

\* Three stations, with ribs strictly inside an interval.
C4_Witness ==
    /\ rib_result.status = "ok"
    /\ Len(wingspans) = 3
    /\ Len(rib_result.ribs) > 3

\* The least number of equal parts of a span d none of which exceeds m.
LeastParts(d, m) == Min({n \in 1..d : d <= n * m})

\* The rib positions lying in the closed interval between stations i and i+1.
Within(i) ==
    SelectSeq(Positions, LAMBDA p : wingspans[i] * Scale <= p /\ p <= wingspans[i + 1] * Scale)

\* C5: the rib positions are ascending without duplicates, consecutive ones
\* are at most max_spacing apart, and each station interval is cut into
\* equal parts whose number is the least for which that bound holds.
C5_SpacingBound ==
    rib_result.status = "ok" =>
        /\ \A j \in 1..(Len(Positions) - 1) :
              /\ Positions[j] < Positions[j + 1]
              /\ Positions[j + 1] - Positions[j] <= max_spacing * Scale
        /\ \A i \in 1..(Len(wingspans) - 1) :
              LET n == LeastParts(wingspans[i + 1] - wingspans[i], max_spacing)
                  w == Within(i)
              IN  /\ Len(w) = n + 1
                  /\ \A k \in 1..n :
                        (w[k + 1] - w[k]) * n = (wingspans[i + 1] - wingspans[i]) * Scale

\* One interval left whole and one cut in at least two parts, a sub-interval
\* as long as max_spacing.
C5_Witness ==
    /\ rib_result.status = "ok"
    /\ \E i \in 1..(Len(wingspans) - 1) : Len(Within(i)) = 2
    /\ \E i \in 1..(Len(wingspans) - 1) : Len(Within(i)) >= 3
    /\ \E j \in 1..(Len(Positions) - 1) : Positions[j + 1] - Positions[j] = max_spacing * Scale

\* C6: calculate_ribs on a surface whose wingspans has exactly one station
\* returns an empty list of ribs and raises no error.
C6_SingleStationNoRibs ==
    (Called /\ Len(wingspans) = 1) =>
        /\ rib_result.status = "ok"
        /\ rib_result.ribs = <<>>

----------------------------------------------------------------------------
(* Claims about SurfaceStructure, under SpecStruct *)

AllElements == spars \o ribs \o coatings

\* C1: whenever at least one element is present, the mass of the PointMass
\* returned by SurfaceStructure.mass is the sum of the masses of the elements
\* in spars, ribs and coatings, each counted once.
C1_MassIsSumOfElements ==
    (mass_result.status # "none" /\ AllElements # <<>>) =>
        /\ mass_result.status = "ok"
        /\ mass_result.point.mass =
              SumSeq([i \in DOMAIN spars |-> ElementMass(spars[i]).mass])
              + SumSeq([i \in DOMAIN ribs |-> ElementMass(ribs[i]).mass])
              + SumSeq([i \in DOMAIN coatings |-> ElementMass(coatings[i]).mass])

\* A mass read of a structure that initialize_structure filled with spars,
\* ribs and a coating and that add_* calls extended.
C1_Witness ==
    /\ mass_result.status = "ok"
    /\ init_status = "ok"
    /\ adds >= 1
    /\ Len(spars) >= 2
    /\ Len(ribs) >= 2
    /\ coatings # <<>>

\* C2: requesting the mass of a SurfaceStructure whose spars, ribs and
\* coatings are all empty ends in an error; no PointMass with a zero or NaN
\* mass or centroid is returned.
C2_EmptyStructureFails ==
    (mass_result.status # "none" /\ AllElements = <<>>) => mass_result.status = "error"

----------------------------------------------------------------------------
(* Claims about StructuralModel, under SpecModel *)

Missing == {i \in DOMAIN aircraft : aircraft[i].surface_type \notin DOMAIN configuration}

\* C7: construction fails at the first surface whose type has no
\* configuration entry and returns no model; when every surface type has an
\* entry the model holds one initialized SurfaceStructure per surface, in
\* surface order.
C7_OneStructurePerSurface ==
    model_result.status # "none" =>
        IF Missing # {}
        THEN /\ model_result.status = "error"
             /\ model_result.error_at = Min(Missing)
             /\ ~model_result.returned
        ELSE /\ model_result.status = "ok"
             /\ model_result.returned
             /\ Len(model_result.structures) = Len(aircraft)
             /\ \A i \in DOMAIN aircraft :
                   /\ model_result.structures[i].surface = aircraft[i]
                   /\ model_result.structures[i].config = configuration[aircraft[i].surface_type]

----------------------------------------------------------------------------
(* Claims about SurfaceCoating, under SpecCoating *)

\* C8: for each SurfaceCoating the triangulated computation runs at most
\* once, on the first read, and every read of area, centroid or mass returns
\* the values of the one cached (centroid, area) pair.
C8_ComputedOnce ==
    /\ \A i \in Instances :
          /\ coating[i].calls <= 1
          /\ coating[i].calls = (IF coating[i].reads >= 1 THEN 1 ELSE 0)
          /\ coating[i].cached <=> coating[i].calls = 1
    /\ last_read.prop # "none" =>
          LET c == coating[last_read.instance]
          IN  /\ c.cached
              /\ last_read.prop = "area" => last_read.area = c.pair.area
              /\ last_read.prop = "centroid" => last_read.centroid = c.pair.centroid
              /\ last_read.prop = "mass" =>
                    last_read.mass = c.pair.area /\ last_read.centroid = c.pair.centroid

\* An instance read several times, the last time through mass.
C8_Witness ==
    /\ last_read.prop = "mass"
    /\ coating[last_read.instance].reads >= 3
    /\ coating[last_read.instance].calls = 1

----------------------------------------------------------------------------
(* Claims about the XML parser, under SpecParse and SpecXml *)

\* C9: is_float(text) is True exactly when float(text) succeeds, and
\* parse_type raises on no string.
C9_ParseTypeNeverFails ==
    (parse_result.status # "none" /\ text # None) =>
        /\ is_float(text) <=> FloatOk(text)
        /\ parse_result.status = "ok"

\* The children of the element carrying a tag, in document order.
ChildrenTagged(tag) == SelectSeq(element.children, LAMBDA c : c.tag = tag)

\* C10: in the dictionary returned for an element with children, a tag of
\* exactly one child maps to that child's parsed value, and a tag of k >= 2
\* children maps to the list of the k parsed values in document order.
C10_RepeatedTagsListed ==
    (dict_result.status = "ok" /\ element.children # <<>>) =>
        /\ dict_result.value.kind = "dict"
        /\ \A c \in Range(element.children) :
              LET same == ChildrenTagged(c.tag)
                  parsed == [i \in DOMAIN same |-> parse_xml_to_dict(same[i]).value]
                  d == dict_result.value.entries
              IN  /\ HasTag(d, c.tag)
                  /\ Len(same) = 1 => Lookup(d, c.tag) = parsed[1]
                  /\ Len(same) >= 2 => Lookup(d, c.tag) = ListValue(parsed)

====
